---------------------------- MODULE Spec2Model ----------------------------
(***************************************************************************)
(* A model of the notebook fmri-5/fmri-5-rsa.ipynb: representational       *)
(* similarity analysis of the Haxby and the Kriegeskorte datasets.         *)
(*                                                                         *)
(* Indices are the notebook's 0-based indices; a Python list or NumPy      *)
(* array a is a TLA+ sequence, a[i] being At(a, i).                        *)
(*                                                                         *)
(* Numbers.  A Python float written in the notebook (a size, .5, 1.0) is   *)
(* an IEEE-754 double, modelled bit for bit as the fixed-point expansion   *)
(* of its magnitude (section "doubles").  A response pattern is a vector   *)
(* of small integers, and a distance between two patterns is kept exact,   *)
(* as the surd sgn*sqrt(p/q) it is built from (section "distances"): the   *)
(* library's own rounding of a distance is not modelled.                   *)
(***************************************************************************)
EXTENDS Integers, Sequences, FiniteSets, TLC

(***************************************************************************)
(* Bounds of the model.                                                    *)
(***************************************************************************)
\* a voxel's response magnitude is in 0..MaxVal
MaxVal == 2
\* voxels of a response pattern
MaxVox == 3
\* patterns handed to pdist, sizes handed to combinations (pure checks)
MaxN == 4
\* categories of a matrix handed to squareform (pure check)
MaxSqN == 4
\* the entries of a vector handed to squareform are k/MaxDis, k in 0..MaxDis
MaxDis == 1
\* TRs of a session (design-matrix check)
MaxTRs == 4
\* run labels of a session are 0..MaxRun (design-matrix check)
MaxRun == 1
\* a Haxby-like session presents the categories rotated by 0..MaxRot
MaxRot == 1
\* a Haxby-like session leaves out 0..MaxDrop of the categories
MaxDrop == 1
\* fraction bits of the fixed-point window a double is written in
FracBits == 60

VARIABLES
    pc,               \* the cell (and loop position) the notebook is at
    session,          \* the session file: a sequence of [labels, chunks] rows
    stimuli,          \* session['labels'].values
    runs,             \* session['chunks'].values
    categories,       \* sorted unique labels, 'rest' excluded
    func_runs,        \* per run, the TR indices index_img selects
    design_matrices,  \* per run, the events handed to the design matrix
    glm_vt,           \* one response pattern per category
    rdm_vt,           \* the vectorized neural RDM
    rdm_animacy,
    rdm_tools,
    sizes,
    rdm_size,
    indices,          \* the state of the iterator combinations(sizes, 2)
    heatmaps,         \* the matrices handed to sns.heatmap, in order
    roi_data,         \* the 96 response patterns of the Kriegeskorte dataset
    rdm_krieg,        \* their vectorized RDM
    arg,              \* the input of a library function applied on its own
    ret               \* and its result

vars == <<pc, session, stimuli, runs, categories, func_runs, design_matrices,
          glm_vt, rdm_vt, rdm_animacy, rdm_tools, sizes, rdm_size, indices,
          heatmaps, roi_data, rdm_krieg, arg, ret>>

(***************************************************************************)
(* Sequences and integers.                                                 *)
(***************************************************************************)
At(a, i) == a[i + 1]

Range(a) == {a[k] : k \in 1..Len(a)}

Abs(x) == IF x < 0 THEN -x ELSE x

Sign(x) == IF x < 0 THEN -1 ELSE IF x = 0 THEN 0 ELSE 1

RECURSIVE Gcd(_, _)
Gcd(a, b) == IF b = 0 THEN a ELSE Gcd(b, a % b)

RECURSIVE Sum(_)
Sum(s) == IF s = <<>> THEN 0 ELSE Head(s) + Sum(Tail(s))

Dot(u, v) == Sum([k \in 1..Len(u) |-> u[k] * v[k]])

RECURSIVE Flatten(_)
Flatten(ss) == IF ss = <<>> THEN <<>> ELSE Head(ss) \o Flatten(Tail(ss))

(***************************************************************************)
(* Doubles.  The magnitude of a double is a sequence of Width bits, most   *)
(* significant first: IntBits bits before the binary point and FracBits    *)
(* after it.  A double has MantBits significant bits; every double the     *)
(* notebook writes or computes (sizes in 0..1, their differences) fits     *)
(* the window exactly.                                                     *)
(***************************************************************************)
MantBits == 53

IntBits == 1

Width == IntBits + FracBits

BitsZero == [k \in 1..Width |-> 0]

\* the position of the leading 1 bit, Len(b) + 1 when there is none
Lead(b) ==
    LET ones == {k \in 1..Len(b) : b[k] = 1}
    IN  IF ones = {} THEN Len(b) + 1
        ELSE CHOOSE k \in ones : \A h \in ones : k <= h

BitsLess(a, b) ==
    \E k \in 1..Len(a) : a[k] < b[k] /\ \A h \in 1..(k - 1) : a[h] = b[h]

\* a - b for a >= b: bit k borrows when the bits below it of a are less
\* than those of b
BitsSub(a, b) ==
    LET n == Len(a)
        borrow(k) ==
            IF \E j \in (k + 1)..n :
                  a[j] < b[j] /\ \A h \in (k + 1)..(j - 1) : a[h] = b[h]
            THEN 1 ELSE 0
    IN  [k \in 1..n |-> (a[k] - b[k] - borrow(k) + 2) % 2]

\* b plus one unit of bit position q: the carry runs to the left through
\* the 1 bits
BitsInc(b, q) ==
    [k \in 1..Len(b) |->
        IF k > q THEN b[k]
        ELSE IF \A h \in (k + 1)..q : b[h] = 1 THEN 1 - b[k] ELSE b[k]]

\* round-to-nearest, ties-to-even, to MantBits significant bits; sticky says
\* that the exact value has non-zero bits beyond those of b
RoundBits(b, sticky) ==
    LET n    == Len(b)
        last == Lead(b) + MantBits - 1
    IN  IF last >= n THEN b
        ELSE LET guard == b[last + 1]
                 rest  == sticky \/ \E k \in (last + 2)..n : b[k] = 1
                 kept  == [k \in 1..n |-> IF k <= last THEN b[k] ELSE 0]
                 up    == guard = 1 /\ (rest \/ b[last] = 1)
             IN  IF up THEN BitsInc(kept, last) ELSE kept

\* 2^k modulo den
RECURSIVE Pow2Mod(_, _)
Pow2Mod(k, den) ==
    IF k = 0 THEN 1 % den
    ELSE LET h == Pow2Mod(k \div 2, den)
         IN  (h * h * (IF k % 2 = 1 THEN 2 ELSE 1)) % den

\* what is left of r/den (r < den) after k binary places
Remainder(r, den, k) == (r * Pow2Mod(k, den)) % den

\* the first n binary places of r/den: place k is 1 when doubling what is
\* left after k - 1 places reaches den
Expand(r, den, n) ==
    [k \in 1..n |-> IF 2 * Remainder(r, den, k - 1) >= den THEN 1 ELSE 0]

\* the double a decimal literal num/den (0 <= num/den < 2) is read as
ParseDecimal(num, den) ==
    LET ip    == <<num \div den>>
        exact == ip \o Expand(num % den, den, FracBits)
    IN  [neg |-> FALSE,
         mag |-> RoundBits(exact, Remainder(num % den, den, FracBits) # 0)]

FZero == ParseDecimal(0, 1)

FOne == ParseDecimal(1, 1)

FHalf == ParseDecimal(5, 10)

\* a - b for doubles a, b >= 0: the exact difference, rounded
FSub(a, b) ==
    IF BitsLess(a.mag, b.mag)
    THEN [neg |-> TRUE, mag |-> RoundBits(BitsSub(b.mag, a.mag), FALSE)]
    ELSE [neg |-> FALSE, mag |-> RoundBits(BitsSub(a.mag, b.mag), FALSE)]

\* np.abs
FAbs(x) == [neg |-> FALSE, mag |-> x.mag]

\* x < y for doubles x, y >= 0
FLess(x, y) == BitsLess(x.mag, y.mag)

(***************************************************************************)
(* Distances.  A surd is the number sgn * sqrt(p / q), p/q in lowest       *)
(* terms, or the not-a-number marker a division 0/0 leaves.                *)
(***************************************************************************)
NaN == [nan |-> TRUE, sgn |-> 0, p |-> 0, q |-> 1]

SurdZero == [nan |-> FALSE, sgn |-> 0, p |-> 0, q |-> 1]

SurdOne == [nan |-> FALSE, sgn |-> 1, p |-> 1, q |-> 1]

\* c / sqrt(a * b) for a, b > 0
Ratio(c, a, b) ==
    LET g1 == Gcd(Abs(c), a)
        g2 == Gcd(Abs(c), b)
        n  == (Abs(c) \div g1) * (Abs(c) \div g2)
        d  == (a \div g1) * (b \div g2)
        g  == Gcd(n, d)
    IN  [nan |-> FALSE, sgn |-> Sign(c), p |-> n \div g, q |-> d \div g]

SurdLess(x, y) ==
    IF x.sgn # y.sgn THEN x.sgn < y.sgn
    ELSE IF x.sgn = 1 THEN x.p * y.q < y.p * x.q
    ELSE IF x.sgn = -1 THEN y.p * x.q < x.p * y.q
    ELSE FALSE

\* Pearson's r of two integer vectors; 0/0 when one of them is constant
Pearson(u, v) ==
    LET n == Len(u)
        c == n * Dot(u, v) - Sum(u) * Sum(v)
        a == n * Dot(u, u) - Sum(u) * Sum(u)
        b == n * Dot(v, v) - Sum(v) * Sum(v)
    IN  IF a = 0 \/ b = 0 THEN NaN ELSE Ratio(c, a, b)

\* the metric 'correlation': the distance 1 - r, kept as its r
Correlation(u, v) == [metric |-> "correlation", x |-> Pearson(u, v)]

\* the metric 'euclidean': the distance sqrt(sum (u - v)^2)
Euclidean(u, v) ==
    LET sq == Sum([k \in 1..Len(u) |-> (u[k] - v[k]) * (u[k] - v[k])])
    IN  [metric |-> "euclidean",
         x |-> IF sq = 0 THEN SurdZero
               ELSE [nan |-> FALSE, sgn |-> 1, p |-> sq, q |-> 1]]

Metric(metric, u, v) ==
    IF metric = "correlation" THEN Correlation(u, v) ELSE Euclidean(u, v)

DistIsZero(d) ==
    IF d.metric = "correlation" THEN d.x = SurdOne ELSE d.x = SurdZero

DistIsNaN(d) == d.x.nan

\* a pattern with zero variance across voxels
Degenerate(u) == \A k \in 1..Len(u) : u[k] = u[1]

(***************************************************************************)
(* An entry of a dissimilarity array is a double (the model RDMs) or a     *)
(* distance (the neural RDMs).                                             *)
(***************************************************************************)
IsDouble(x) == "mag" \in DOMAIN x

IsNaNEntry(x) == IF IsDouble(x) THEN FALSE ELSE DistIsNaN(x)

EntryLess(x, y) ==
    IF IsDouble(x) THEN FLess(x, y)
    ELSE IF x.metric = "correlation" THEN SurdLess(y.x, x.x)
    ELSE SurdLess(x.x, y.x)

(***************************************************************************)
(* scipy.spatial.distance.pdist: the distances of the rows of X, pair      *)
(* (i, j) for i < j, the outer loop over i and the inner loop over j.      *)
(***************************************************************************)
\* the inner loop started at j = i instead of j = i + 1
MutPdistRowWithDiagonal(m, i) == [h \in 1..(m - i) |-> <<i, i + h - 1>>]

\* the pairs of row i: j from i + 1 to m - 1
PdistRow(m, i) == [h \in 1..(m - 1 - i) |-> <<i, i + h>>]

RECURSIVE PdistPairsFrom(_, _)
PdistPairsFrom(m, i) ==
    IF i >= m - 1 THEN <<>> ELSE PdistRow(m, i) \o PdistPairsFrom(m, i + 1)

\* the loop with the roles of i and j exchanged: ordered by j, then by i
MutPdistPairsByColumn(m) ==
    Flatten([j \in 1..(m - 1) |-> [i \in 1..j |-> <<i - 1, j>>]])

PdistPairs(m) == PdistPairsFrom(m, 0)

Pdist(X, metric) ==
    LET pairs == PdistPairs(Len(X))
    IN  [k \in 1..Len(pairs) |->
            Metric(metric, At(X, pairs[k][1]), At(X, pairs[k][2]))]

(***************************************************************************)
(* itertools.combinations(pool, 2): the iterator's indices, and the step   *)
(* that advances them; <<>> once the iterator is exhausted.                *)
(***************************************************************************)
FirstIndices(n) == IF n < 2 THEN <<>> ELSE <<0, 1>>

NextIndices(ind, n) ==
    IF ind[2] # n - 1 THEN <<ind[1], ind[2] + 1>>
    ELSE IF ind[1] # n - 2 THEN <<ind[1] + 1, ind[1] + 2>>
    ELSE <<>>

RECURSIVE IndicesFrom(_, _)
IndicesFrom(ind, n) ==
    IF ind = <<>> THEN <<>> ELSE <<ind>> \o IndicesFrom(NextIndices(ind, n), n)

Combinations(n) == IndicesFrom(FirstIndices(n), n)

\* the difference without np.abs
MutSizeEntrySigned(pool, ind) == FSub(At(pool, ind[1]), At(pool, ind[2]))

\* np.abs(pair[0] - pair[1]) for the pair the iterator is at
SizeEntry(pool, ind) == FAbs(FSub(At(pool, ind[1]), At(pool, ind[2])))

\* the list the loop over combinations(pool, 2) builds
SizeRDM(pool) ==
    LET c == Combinations(Len(pool))
    IN  [k \in 1..Len(c) |-> SizeEntry(pool, c[k])]

(***************************************************************************)
(* scipy.spatial.distance.squareform.  A matrix is the sequence of its     *)
(* rows.  A call that raises is the string naming the exception.           *)
(***************************************************************************)
\* int(ceil(sqrt(2 * s)))
RECURSIVE CeilSqrtFrom(_, _)
CeilSqrtFrom(x, d) == IF d * d >= x THEN d ELSE CeilSqrtFrom(x, d + 1)

CeilSqrt(x) == CeilSqrtFrom(x, 0)

\* the place of pair (i, j), i < j, in the condensed vector of m categories
CondensedIndex(m, i, j) == m * i + j - ((i + 2) * (i + 1)) \div 2

\* a vector whose length is no d * (d - 1) / 2 raises ValueError
ToSquareRaises(v) ==
    LET d == CeilSqrt(2 * Len(v)) IN d * (d - 1) # 2 * Len(v)

\* vector to matrix
ToSquare(v) ==
    LET d == CeilSqrt(2 * Len(v))
    IN  IF ToSquareRaises(v) THEN "ValueError"
        ELSE [a \in 1..d |-> [b \in 1..d |->
                 IF a = b THEN FZero
                 ELSE IF a < b THEN At(v, CondensedIndex(d, a - 1, b - 1))
                 ELSE At(v, CondensedIndex(d, b - 1, a - 1))]]

\* x == y as NumPy compares two entries: a not-a-number equals nothing
EntryEq(x, y) == ~IsNaNEntry(x) /\ ~IsNaNEntry(y) /\ x = y

\* is_valid_dm: square, symmetric (D == D.T), zero diagonal
IsValidDm(M) ==
    /\ \A a \in 1..Len(M) : Len(M[a]) = Len(M)
    /\ \A a, b \in 1..Len(M) : EntryEq(M[a][b], M[b][a])
    /\ \A a \in 1..Len(M) : IsDouble(M[a][a]) /\ M[a][a] = FZero

\* a matrix that is no valid distance matrix raises ValueError
ToVectorRaises(M) == ~IsValidDm(M)

\* matrix to vector: the upper triangle, row after row
ToVector(M) ==
    IF ToVectorRaises(M) THEN "ValueError"
    ELSE Flatten([a \in 1..Len(M) |-> [h \in 1..(Len(M) - a) |-> M[a][a + h]]])

(***************************************************************************)
(* NumPy fancy indexing, as the heatmap uses it: M[idx] takes rows,        *)
(* M[:, idx] takes columns, a[idx] takes entries.                          *)
(***************************************************************************)
Take(a, idx) == [k \in 1..Len(idx) |-> At(a, idx[k])]

TakeRows(M, idx) == Take(M, idx)

TakeCols(M, idx) == [a \in 1..Len(M) |-> Take(M[a], idx)]

\* M[idx], the columns left in place
MutReorderedRowsOnly(M, idx) == TakeRows(M, idx)

\* M[idx][:, idx]
Reordered(M, idx) == TakeCols(TakeRows(M, idx), idx)

(***************************************************************************)
(* scipy.stats.rankdata and spearmanr.  Ranks are kept doubled, so that    *)
(* the average rank of a tie is an integer.                                *)
(***************************************************************************)
RankData(a) ==
    [k \in 1..Len(a) |->
        2 * Cardinality({h \in 1..Len(a) : EntryLess(a[h], a[k])})
        + Cardinality({h \in 1..Len(a) : a[h] = a[k]}) + 1]

IsConstant(a) == \A k \in 1..Len(a) : a[k] = a[1]

\* the correlation coefficient spearmanr(a, b) returns (nan_policy 'propagate')
Spearmanr(a, b) ==
    IF \E k \in 1..Len(a) : IsNaNEntry(a[k]) \/ IsNaNEntry(b[k]) THEN NaN
    ELSE IF IsConstant(a) \/ IsConstant(b) THEN NaN
    ELSE Pearson(RankData(a), RankData(b))

(***************************************************************************)
(* Strings.  A label is compared as Python compares it, letter by letter;  *)
(* Spell gives the letters of each label as their place in the alphabet.   *)
(***************************************************************************)
Spell ==
    [bottle       |-> <<2, 15, 20, 20, 12, 5>>,
     cat          |-> <<3, 1, 20>>,
     chair        |-> <<3, 8, 1, 9, 18>>,
     face         |-> <<6, 1, 3, 5>>,
     house        |-> <<8, 15, 21, 19, 5>>,
     rest         |-> <<18, 5, 19, 20>>,
     scissors     |-> <<19, 3, 9, 19, 19, 15, 18, 19>>,
     scrambledpix |-> <<19, 3, 18, 1, 13, 2, 12, 5, 4, 16, 9, 24>>,
     shoe         |-> <<19, 8, 15, 5>>]

Labels == DOMAIN Spell

SeqLess(s, t) ==
    \/ \E k \in 1..Len(s) :
          /\ k <= Len(t)
          /\ s[k] < t[k]
          /\ \A h \in 1..(k - 1) : s[h] = t[h]
    \/ Len(s) < Len(t) /\ \A h \in 1..Len(s) : s[h] = t[h]

StrLess(a, b) == SeqLess(Spell[a], Spell[b])

\* the labels of set S in increasing order
SortLabels(S) ==
    [k \in 1..Cardinality(S) |->
        CHOOSE x \in S : Cardinality({y \in S : StrLess(y, x)}) = k - 1]

\* the integers of set S in increasing order
SortInts(S) ==
    [k \in 1..Cardinality(S) |->
        CHOOSE x \in S : Cardinality({y \in S : y < x}) = k - 1]

\* np.unique of an array of labels, and of an array of run numbers
UniqueLabels(a) == SortLabels(Range(a))

UniqueRuns(a) == SortInts(Range(a))

\* the indices a boolean mask selects, in increasing order
Where(mask) == SortInts({k - 1 : k \in {h \in 1..Len(mask) : mask[h]}})

(***************************************************************************)
(* The notebook's constants.                                               *)
(***************************************************************************)
\* tr = 2.5 seconds, in half seconds
TrHalfSeconds == 5

reorder == <<3, 1, 0, 7, 5, 2, 4, 6>>

\* sizes = [.3, .35, .2, .2, .1, .5, 1, 0]
SizesLiteral ==
    <<ParseDecimal(3, 10), ParseDecimal(35, 100), ParseDecimal(2, 10),
      ParseDecimal(2, 10), ParseDecimal(1, 10), ParseDecimal(5, 10),
      ParseDecimal(1, 1), ParseDecimal(0, 1)>>

\* the Kriegeskorte dataset holds 96 images
NImages == 96

\* np.ones(n)
Ones(n) == [k \in 1..n |-> FOne]

\* an index out of bounds raises IndexError
IndexRaises(a, idx) == \E k \in 1..Len(idx) : idx[k] >= Len(a)

\* a[i] = x for every i of idx
SetItems(a, idx, x) ==
    IF IndexRaises(a, idx) THEN "IndexError"
    ELSE [k \in 1..Len(a) |-> IF k - 1 \in Range(idx) THEN x ELSE a[k]]

\* the 0.5 set one index further
MutAnimacyRDMAtNine(n) == SetItems(Ones(n), <<9>>, FHalf)

\* rdm_animacy = np.ones(n); rdm_animacy[8] = .5
AnimacyRDM(n) == SetItems(Ones(n), <<8>>, FHalf)

\* rdm_tools = np.ones(n); rdm_tools[[4, 6, 26]] = .5
ToolsRDM(n) == SetItems(Ones(n), <<4, 6, 26>>, FHalf)

(***************************************************************************)
(* Cell 4: the session's labels and runs, and the categories.              *)
(***************************************************************************)
Column(rows, name) == [k \in 1..Len(rows) |-> rows[k][name]]

\* [c for c in np.unique(stimuli) if c != 'rest']
Categories(labels) == SelectSeq(UniqueLabels(labels), LAMBDA c : c # "rest")

LoadSession ==
    /\ pc = "load"
    /\ stimuli' = Column(session, "labels")
    /\ runs' = Column(session, "chunks")
    /\ categories' = Categories(Column(session, "labels"))
    /\ pc' = "split"
    /\ UNCHANGED <<session, func_runs, design_matrices, glm_vt, rdm_vt, rdm_animacy,
                   rdm_tools, sizes, rdm_size, indices, heatmaps, roi_data,
                   rdm_krieg, arg, ret>>

(***************************************************************************)
(* Cell 5: one iteration of the loop that splits the image by run.         *)
(* index_img(func_file, mask) is modelled by the TRs the mask selects.     *)
(***************************************************************************)
RunMask(run) == [k \in 1..Len(runs) |-> runs[k] = run]

\* the run the (done + 1)-th iteration of `for run in np.unique(runs)` is at
RunOfIteration(done) == UniqueRuns(runs)[done + 1]

SplitRun ==
    /\ pc = "split"
    /\ func_runs' = Append(func_runs,
                           Where(RunMask(RunOfIteration(Len(func_runs)))))
    /\ pc' = IF Len(func_runs) + 1 = Len(UniqueRuns(runs))
             THEN "design" ELSE "split"
    /\ UNCHANGED <<session, stimuli, runs, categories, design_matrices,
                   glm_vt, rdm_vt, rdm_animacy, rdm_tools, sizes, rdm_size,
                   indices, heatmaps, roi_data, rdm_krieg, arg, ret>>

(***************************************************************************)
(* Cell 7: one iteration of the loop that builds a design matrix.  The     *)
(* design matrix is modelled by what it is built from: the frame times     *)
(* and the events.                                                         *)
(***************************************************************************)
\* onsets counted from the end of the TR: tr * np.arange(1, n_trs + 1)
MutOnsetsFromOne(n_trs) == [k \in 1..n_trs |-> TrHalfSeconds * k]

\* onsets = tr * np.arange(n_trs)
Onsets(n_trs) == [k \in 1..n_trs |-> TrHalfSeconds * (k - 1)]

\* events = events_all[events_all['trial_type'] != 'rest']
Events(events_all) ==
    SelectSeq(events_all, LAMBDA e : e.trial_type # "rest")

DesignMatrix(run) ==
    LET mask        == RunMask(run)
        stimuli_run == Take(stimuli, Where(mask))
        n_trs       == Len(stimuli_run)
        onsets      == Onsets(n_trs)
        events_all  == [k \in 1..n_trs |->
                           [onset      |-> onsets[k],
                            trial_type |-> stimuli_run[k],
                            duration   |-> TrHalfSeconds]]
    IN  [frame_times |-> onsets, events |-> Events(events_all)]

DesignRun ==
    /\ pc = "design"
    /\ design_matrices' =
          Append(design_matrices,
                 DesignMatrix(RunOfIteration(Len(design_matrices))))
    /\ pc' = IF Len(design_matrices) + 1 = Len(UniqueRuns(runs))
             THEN "fit" ELSE "design"
    /\ UNCHANGED <<session, stimuli, runs, categories, func_runs, glm_vt,
                   rdm_vt, rdm_animacy, rdm_tools, sizes, rdm_size, indices,
                   heatmaps, roi_data, rdm_krieg, arg, ret>>

(***************************************************************************)
(* Cell 8: the GLM.  Its fit is numerical work of the library; what it     *)
(* leaves is one response pattern per category, any of GlmOutcomes.        *)
(***************************************************************************)
RECURSIVE Pow(_, _)
Pow(b, e) == IF e = 0 THEN 1 ELSE b * Pow(b, e - 1)

\* the pattern whose voxels are the digits of i
BasePattern(i) ==
    [v \in 1..MaxVox |-> (i \div Pow(MaxVal + 1, MaxVox - v)) % (MaxVal + 1)]

BasePatterns(n) == [i \in 1..n |-> BasePattern(i)]

Vectors == [1..MaxVox -> 0..MaxVal]

\* patterns all different; the last the same as the first; the first flat
GlmOutcomes(n) ==
    {BasePatterns(n),
     [BasePatterns(n) EXCEPT ![n] = BasePattern(1)],
     [BasePatterns(n) EXCEPT ![1] = [v \in 1..MaxVox |-> MaxVal]]}

FitGLM ==
    /\ pc = "fit"
    /\ \E X \in GlmOutcomes(Len(categories)) : glm_vt' = X
    /\ pc' = "rdm"
    /\ UNCHANGED <<session, stimuli, runs, categories, func_runs,
                   design_matrices, rdm_vt, rdm_animacy, rdm_tools, sizes,
                   rdm_size, indices, heatmaps, roi_data, rdm_krieg, arg, ret>>

(***************************************************************************)
(* Cell 10: the neural RDM, by correlation distance.                       *)
(***************************************************************************)
ComputeRDM ==
    /\ pc = "rdm"
    /\ rdm_vt' = Pdist(glm_vt, "correlation")
    /\ pc' = "reorder"
    /\ UNCHANGED <<session, stimuli, runs, categories, func_runs,
                   design_matrices, glm_vt, rdm_animacy, rdm_tools, sizes,
                   rdm_size, indices, heatmaps, roi_data, rdm_krieg, arg, ret>>

(***************************************************************************)
(* Cell 12: categories[reorder] raises IndexError unless every index of    *)
(* reorder is a category.                                                  *)
(***************************************************************************)
PrintReordered ==
    /\ pc = "reorder"
    /\ pc' = IF IndexRaises(categories, reorder) THEN "error" ELSE "animacy"
    /\ UNCHANGED <<session, stimuli, runs, categories, func_runs,
                   design_matrices, glm_vt, rdm_vt, rdm_animacy, rdm_tools,
                   sizes, rdm_size, indices, heatmaps, roi_data, rdm_krieg,
                   arg, ret>>

(***************************************************************************)
(* Cell 18: the three model RDMs and their heatmaps.                       *)
(***************************************************************************)
SetUpAnimacy ==
    /\ pc = "animacy"
    /\ LET raised == IndexRaises(Ones(Len(rdm_vt)), <<8>>)
       IN  /\ rdm_animacy' = IF raised THEN Ones(Len(rdm_vt))
                             ELSE AnimacyRDM(Len(rdm_vt))
           /\ pc' = IF raised THEN "error" ELSE "tools"
    /\ UNCHANGED <<session, stimuli, runs, categories, func_runs,
                   design_matrices, glm_vt, rdm_vt, rdm_tools, sizes,
                   rdm_size, indices, heatmaps, roi_data, rdm_krieg, arg, ret>>

SetUpTools ==
    /\ pc = "tools"
    /\ LET raised == IndexRaises(Ones(Len(rdm_vt)), <<4, 6, 26>>)
       IN  /\ rdm_tools' = IF raised THEN Ones(Len(rdm_vt))
                           ELSE ToolsRDM(Len(rdm_vt))
           /\ pc' = IF raised THEN "error" ELSE "sizes"
    /\ UNCHANGED <<session, stimuli, runs, categories, func_runs,
                   design_matrices, glm_vt, rdm_vt, rdm_animacy, sizes,
                   rdm_size, indices, heatmaps, roi_data, rdm_krieg, arg, ret>>

SetUpSizes ==
    /\ pc = "sizes"
    /\ sizes' = SizesLiteral
    /\ rdm_size' = <<>>
    /\ indices' = FirstIndices(Len(SizesLiteral))
    /\ pc' = IF FirstIndices(Len(SizesLiteral)) = <<>>
             THEN "plot" ELSE "size_loop"
    /\ UNCHANGED <<session, stimuli, runs, categories, func_runs,
                   design_matrices, glm_vt, rdm_vt, rdm_animacy, rdm_tools,
                   heatmaps, roi_data, rdm_krieg, arg, ret>>

\* one iteration of `for pair in combinations(sizes, 2)`
SizeStep ==
    /\ pc = "size_loop"
    /\ rdm_size' = Append(rdm_size, SizeEntry(sizes, indices))
    /\ indices' = NextIndices(indices, Len(sizes))
    /\ pc' = IF NextIndices(indices, Len(sizes)) = <<>>
             THEN "plot" ELSE "size_loop"
    /\ UNCHANGED <<session, stimuli, runs, categories, func_runs,
                   design_matrices, glm_vt, rdm_vt, rdm_animacy, rdm_tools,
                   sizes, heatmaps, roi_data, rdm_krieg, arg, ret>>

\* the dictionary rdms, in insertion order
Rdms ==
    <<[title |-> "animacy RDM", rdm |-> rdm_animacy],
      [title |-> "tool RDM", rdm |-> rdm_tools],
      [title |-> "real-world size RDM", rdm |-> rdm_size]>>

Heatmap(title, rdm) ==
    [title       |-> title,
     data        |-> Reordered(ToSquare(rdm), reorder),
     xticklabels |-> Take(categories, reorder),
     yticklabels |-> Take(categories, reorder)]

\* one iteration of `for rdm, ax in zip(rdms, axs)`
PlotRDM ==
    /\ pc = "plot"
    /\ LET it == Rdms[Len(heatmaps) + 1]
       IN  IF ToSquareRaises(it.rdm)
           THEN /\ pc' = "error"
                /\ UNCHANGED heatmaps
           ELSE /\ heatmaps' = Append(heatmaps, Heatmap(it.title, it.rdm))
                /\ pc' = IF Len(heatmaps) + 1 = Len(Rdms)
                         THEN "kriegeskorte" ELSE "plot"
    /\ UNCHANGED <<session, stimuli, runs, categories, func_runs,
                   design_matrices, glm_vt, rdm_vt, rdm_animacy, rdm_tools,
                   sizes, rdm_size, indices, roi_data, rdm_krieg, arg, ret>>

(***************************************************************************)
(* Cells 26 to 31: the Kriegeskorte dataset and its RDM.                   *)
(***************************************************************************)
\* the patterns of the 96 images: the base patterns from s on
RoiPatterns(s) == [i \in 1..NImages |-> BasePattern(i + s)]

LoadKriegeskorte ==
    /\ pc = "kriegeskorte"
    /\ \E s \in {0, 1} : roi_data' = RoiPatterns(s)
    /\ pc' = "krieg_rdm"
    /\ UNCHANGED <<session, stimuli, runs, categories, func_runs,
                   design_matrices, glm_vt, rdm_vt, rdm_animacy, rdm_tools,
                   sizes, rdm_size, indices, heatmaps, rdm_krieg, arg, ret>>

ComputeKriegRDM ==
    /\ pc = "krieg_rdm"
    /\ rdm_krieg' = Pdist(roi_data, "correlation")
    /\ pc' = "done"
    /\ UNCHANGED <<session, stimuli, runs, categories, func_runs,
                   design_matrices, glm_vt, rdm_vt, rdm_animacy, rdm_tools,
                   sizes, rdm_size, indices, heatmaps, roi_data, arg, ret>>

(***************************************************************************)
(* The notebook, run from the top on a Haxby-like session: two runs, each  *)
(* presenting one block per category between rests.                        *)
(***************************************************************************)
BlockOrder ==
    <<"scissors", "face", "cat", "shoe", "house", "scrambledpix", "bottle",
      "chair">>

Rotate(s, r) == [k \in 1..Len(s) |-> s[((k - 1 + r) % Len(s)) + 1]]

Reverse(s) == [k \in 1..Len(s) |-> s[Len(s) + 1 - k]]

RunRows(blocks, chunk) ==
    Flatten([k \in 1..Len(blocks) |->
                <<[labels |-> "rest", chunks |-> chunk],
                  [labels |-> blocks[k], chunks |-> chunk]>>])
    \o <<[labels |-> "rest", chunks |-> chunk]>>

HaxbySession(rot, drop) ==
    LET blocks == SubSeq(Rotate(BlockOrder, rot), drop + 1, Len(BlockOrder))
    IN  RunRows(blocks, 0) \o RunRows(Reverse(blocks), 1)

HaxbySessions == {HaxbySession(rot, drop) : rot \in 0..MaxRot, drop \in 0..MaxDrop}

Blank ==
    /\ stimuli = <<>>
    /\ runs = <<>>
    /\ categories = <<>>
    /\ func_runs = <<>>
    /\ design_matrices = <<>>
    /\ glm_vt = <<>>
    /\ rdm_vt = <<>>
    /\ rdm_animacy = <<>>
    /\ rdm_tools = <<>>
    /\ sizes = <<>>
    /\ rdm_size = <<>>
    /\ indices = <<>>
    /\ heatmaps = <<>>
    /\ roi_data = <<>>
    /\ rdm_krieg = <<>>

Init ==
    /\ pc = "load"
    /\ session \in HaxbySessions
    /\ Blank
    /\ arg = <<>>
    /\ ret = <<>>

Next ==
    \/ LoadSession
    \/ SplitRun
    \/ DesignRun
    \/ FitGLM
    \/ ComputeRDM
    \/ PrintReordered
    \/ SetUpAnimacy
    \/ SetUpTools
    \/ SetUpSizes
    \/ SizeStep
    \/ PlotRDM
    \/ LoadKriegeskorte
    \/ ComputeKriegRDM

Spec == Init /\ [][Next]_vars

(***************************************************************************)
(* The first three cells on any short session: every labelling of up to    *)
(* MaxTRs TRs by a label and a run.                                        *)
(***************************************************************************)
DesignLabels == {"rest", "cat", "face"}

DesignRows == [labels : DesignLabels, chunks : 0..MaxRun]

DesignSessions == UNION {[1..n -> DesignRows] : n \in 1..MaxTRs}

InitDesign ==
    /\ pc = "load"
    /\ session \in DesignSessions
    /\ Blank
    /\ arg = <<>>
    /\ ret = <<>>

NextDesign ==
    \/ LoadSession
    \/ SplitRun
    \/ DesignRun

SpecDesign == InitDesign /\ [][NextDesign]_vars

(***************************************************************************)
(* The library functions applied on their own: arg holds the call, ret     *)
(* what it returned.                                                       *)
(***************************************************************************)
\* n base patterns, pattern a replaced by p and, with dup, pattern b too
Planted(n, a, b, p, dup) ==
    [i \in 1..n |-> IF i = a \/ (dup /\ i = b) THEN p ELSE BasePattern(i)]

PdistMatrices ==
    {Planted(w[1], w[2], w[3], p, dup) :
        w \in {t \in (2..MaxN) \X (1..MaxN) \X (1..MaxN) :
                  t[2] < t[3] /\ t[3] <= t[1]},
        p \in Vectors, dup \in BOOLEAN}

Metrics == {"correlation", "euclidean"}

PdistArgs ==
    {[fn |-> "pdist", X |-> X, metric |-> m] : X \in PdistMatrices, m \in Metrics}

\* n sizes of the notebook's list, from place a on in steps of s
SizePool(n, a, s) ==
    [i \in 1..n |-> SizesLiteral[((a + i * s) % Len(SizesLiteral)) + 1]]

SizeArgs ==
    {[fn |-> "size_rdm", pool |-> SizePool(n, a, s)] :
        n \in 2..MaxN, a \in 0..(Len(SizesLiteral) - 1),
        s \in 0..(Len(SizesLiteral) - 1)}

\* the doubles k / MaxDis
DisValues == {ParseDecimal(k, MaxDis) : k \in 0..MaxDis}

\* a vector of ones but for x at place a and y at place b
Spike(n, a, x, b, y) ==
    [k \in 1..n |-> IF k = a THEN x ELSE IF k = b THEN y ELSE FOne]

SpikeVectors ==
    {Spike(n, a, x, b, y) :
        n \in 1..((MaxSqN * (MaxSqN - 1)) \div 2),
        a \in 1..((MaxSqN * (MaxSqN - 1)) \div 2),
        b \in 1..((MaxSqN * (MaxSqN - 1)) \div 2),
        x \in DisValues, y \in DisValues}

NeuralRDMs == {Pdist(X, m) : X \in PdistMatrices, m \in Metrics}

SquareformArgs ==
    {[fn |-> "squareform", v |-> v] : v \in SpikeVectors}
    \cup {[fn |-> "squareform", v |-> v] : v \in NeuralRDMs}

\* the RDMs of the 8 categories
PairsOfCategories == (Len(BlockOrder) * (Len(BlockOrder) - 1)) \div 2

ModelRDMs ==
    <<AnimacyRDM(PairsOfCategories), ToolsRDM(PairsOfCategories),
      SizeRDM(SizesLiteral)>>

HaxbyRDMs ==
    {Pdist(X, "correlation") : X \in GlmOutcomes(Len(BlockOrder))}

SpearmanrArgs ==
    {[fn |-> "spearmanr", a |-> ModelRDMs[k], b |-> ModelRDMs[k]] : k \in 1..3}
    \cup {[fn |-> "spearmanr", a |-> v, b |-> v] : v \in HaxbyRDMs}
    \cup {[fn |-> "spearmanr", a |-> v, b |-> ModelRDMs[k]] :
             v \in HaxbyRDMs, k \in 1..3}

InitLib ==
    /\ pc = "call"
    /\ \/ arg \in PdistArgs
       \/ arg \in SizeArgs
       \/ arg \in SquareformArgs
       \/ arg \in SpearmanrArgs
    /\ ret = <<>>
    /\ session = <<>>
    /\ Blank

ApplyPdist ==
    /\ pc = "call"
    /\ arg.fn = "pdist"
    /\ ret' = Pdist(arg.X, arg.metric)
    /\ pc' = "returned"
    /\ UNCHANGED <<session, stimuli, runs, categories, func_runs,
                   design_matrices, glm_vt, rdm_vt, rdm_animacy, rdm_tools,
                   sizes, rdm_size, indices, heatmaps, roi_data, rdm_krieg, arg>>

ApplySizeRDM ==
    /\ pc = "call"
    /\ arg.fn = "size_rdm"
    /\ ret' = SizeRDM(arg.pool)
    /\ pc' = "returned"
    /\ UNCHANGED <<session, stimuli, runs, categories, func_runs,
                   design_matrices, glm_vt, rdm_vt, rdm_animacy, rdm_tools,
                   sizes, rdm_size, indices, heatmaps, roi_data, rdm_krieg, arg>>

ApplyToSquare ==
    /\ pc = "call"
    /\ arg.fn = "squareform"
    /\ IF ToSquareRaises(arg.v)
       THEN pc' = "raised" /\ UNCHANGED ret
       ELSE pc' = "square" /\ ret' = ToSquare(arg.v)
    /\ UNCHANGED <<session, stimuli, runs, categories, func_runs,
                   design_matrices, glm_vt, rdm_vt, rdm_animacy, rdm_tools,
                   sizes, rdm_size, indices, heatmaps, roi_data, rdm_krieg, arg>>

ApplyToVector ==
    /\ pc = "square"
    /\ arg.fn = "squareform"
    /\ IF ToVectorRaises(ret)
       THEN pc' = "raised" /\ UNCHANGED ret
       ELSE pc' = "vector" /\ ret' = ToVector(ret)
    /\ UNCHANGED <<session, stimuli, runs, categories, func_runs,
                   design_matrices, glm_vt, rdm_vt, rdm_animacy, rdm_tools,
                   sizes, rdm_size, indices, heatmaps, roi_data, rdm_krieg, arg>>

ApplySpearmanr ==
    /\ pc = "call"
    /\ arg.fn = "spearmanr"
    /\ ret' = Spearmanr(arg.a, arg.b)
    /\ pc' = "returned"
    /\ UNCHANGED <<session, stimuli, runs, categories, func_runs,
                   design_matrices, glm_vt, rdm_vt, rdm_animacy, rdm_tools,
                   sizes, rdm_size, indices, heatmaps, roi_data, rdm_krieg, arg>>

NextLib ==
    \/ ApplyPdist
    \/ ApplySizeRDM
    \/ ApplyToSquare
    \/ ApplyToVector
    \/ ApplySpearmanr

SpecLib == InitLib /\ [][NextLib]_vars

(***************************************************************************)
(* What the specification says, stated on its own terms.                   *)
(***************************************************************************)
\* pair p comes before pair q: ordered by i, then by j
PairLess(p, q) == p[1] < q[1] \/ (p[1] = q[1] /\ p[2] < q[2])

\* the pairs (i, j), i < j, of n categories in the canonical order
CanonPairs(n) ==
    LET S == {p \in (0..(n - 1)) \X (0..(n - 1)) : p[1] < p[2]}
    IN  [k \in 1..Cardinality(S) |->
            CHOOSE x \in S : Cardinality({y \in S : PairLess(y, x)}) = k - 1]

\* |x - y| of two doubles x, y >= 0
AbsDiff(x, y) == IF FLess(x, y) THEN FSub(y, x) ELSE FSub(x, y)

Triangle(n) == (n * (n - 1)) \div 2

IsTriangular(len) == \E d \in 1..(len + 1) : Triangle(d) = len

\* the categories of the session file
NCategories ==
    Cardinality({session[k].labels : k \in 1..Len(session)} \ {"rest"})

Alphabetical ==
    <<"bottle", "cat", "chair", "face", "house", "scissors", "scrambledpix",
      "shoe">>

\* the two categories of the k-th pair, k counted from 0
PairNames(k) ==
    LET p == At(CanonPairs(Len(Alphabetical)), k)
    IN  {At(Alphabetical, p[1]), At(Alphabetical, p[2])}

\* the cells the notebook has completed by the time it is at pc
AfterRDM ==
    {"reorder", "animacy", "tools", "sizes", "size_loop", "plot",
     "kriegeskorte", "krieg_rdm", "done", "error"}

AfterAnimacy ==
    {"tools", "sizes", "size_loop", "plot", "kriegeskorte", "krieg_rdm", "done"}

AfterTools ==
    {"sizes", "size_loop", "plot", "kriegeskorte", "krieg_rdm", "done"}

AfterSizes == {"plot", "kriegeskorte", "krieg_rdm", "done"}

\* the runs of the session file, in increasing order
RunsOfSession == SortInts({session[k].chunks : k \in 1..Len(session)})

\* the TRs of run c, in scanning order
TRsOfRun(c) ==
    SortInts({t \in 0..(Len(session) - 1) : At(session, t).chunks = c})

\* the magnitude that is one unit of bit position q
Unit(q) == [k \in 1..Width |-> IF k = q THEN 1 ELSE 0]

(***************************************************************************)
(* C1.  pdist lists the distances in the canonical order: entry k is the   *)
(* distance of the k-th pair (i, j), i < j, ordered by i and then by j,    *)
(* every pair once and no pair (i, i); the list built from                 *)
(* combinations(sizes, 2) follows the same order, its entry k being        *)
(* |sizes[i] - sizes[j]| of that pair.                                     *)
(***************************************************************************)
C1CanonicalOrder ==
    pc = "returned" =>
        /\ arg.fn = "pdist" =>
              LET c == CanonPairs(Len(arg.X))
              IN  /\ PdistPairs(Len(arg.X)) = c
                  /\ Len(ret) = Len(c)
                  /\ \A k \in 1..Len(c) :
                        ret[k] = Metric(arg.metric, At(arg.X, c[k][1]),
                                        At(arg.X, c[k][2]))
        /\ arg.fn = "size_rdm" =>
              LET c == CanonPairs(Len(arg.pool))
              IN  /\ Combinations(Len(arg.pool)) = c
                  /\ Len(ret) = Len(c)
                  /\ \A k \in 1..Len(c) :
                        ret[k] = AbsDiff(At(arg.pool, c[k][1]),
                                         At(arg.pool, c[k][2]))

\* C1 witness: pdist has returned the RDM of four patterns, where the order
\* by i then j differs from the order by j then i, with different distances
\* at the places where the two orders differ
C1Witness ==
    /\ pc = "returned"
    /\ arg.fn = "pdist"
    /\ Len(arg.X) = 4
    /\ Len(ret) = 6
    /\ \A k \in 1..6 : ~DistIsNaN(ret[k])
    /\ ret[3] # ret[4]

(***************************************************************************)
(* C2.  The vectorized RDM has N(N-1)/2 entries for N categories, 28 for   *)
(* N = 8 and 4560 for the 96 images; rdm_animacy, rdm_tools and rdm_size   *)
(* have the length of rdm_vt.                                              *)
(***************************************************************************)
C2Lengths ==
    /\ pc \in AfterRDM =>
          /\ Len(rdm_vt) = Triangle(NCategories)
          /\ NCategories = 8 => Len(rdm_vt) = 28
    /\ pc \in AfterSizes =>
          /\ Len(rdm_animacy) = Len(rdm_vt)
          /\ Len(rdm_tools) = Len(rdm_vt)
          /\ Len(rdm_size) = Len(rdm_vt)
    /\ pc = "done" =>
          /\ Len(roi_data) = 96
          /\ Len(rdm_krieg) = 4560

\* C2 witness: the notebook has run to its end on a session of 8
\* categories, all RDMs built
C2Witness ==
    /\ pc = "done"
    /\ NCategories = 8
    /\ Len(rdm_size) = 28
    /\ Len(rdm_krieg) > 0

(***************************************************************************)
(* C3.  Round trip of squareform: for every vector v of length N(N-1)/2,   *)
(* the square matrix built from v, vectorized again, is v.                 *)
(***************************************************************************)
C3RoundTrip ==
    (arg.fn = "squareform" /\ IsTriangular(Len(arg.v))) =>
        /\ pc # "raised"
        /\ pc = "vector" => ret = arg.v

(***************************************************************************)
(* C4.  For every pair of identical response patterns the correlation      *)
(* distance is 0 and the Euclidean distance is 0, patterns of zero         *)
(* variance not excepted.                                                  *)
(***************************************************************************)
C4IdenticalIsZero ==
    (pc = "returned" /\ arg.fn = "pdist") =>
        LET c == CanonPairs(Len(arg.X))
        IN  \A k \in 1..Len(ret) :
                At(arg.X, c[k][1]) = At(arg.X, c[k][2]) => DistIsZero(ret[k])

(***************************************************************************)
(* C5.  When a response pattern is degenerate, computing the               *)
(* correlation-distance RDM ends in an error: no RDM is returned and no    *)
(* later cell runs.                                                        *)
(***************************************************************************)
C5DegenerateIsError ==
    (\E i \in 1..Len(glm_vt) : Degenerate(glm_vt[i])) =>
        /\ rdm_vt = <<>>
        /\ pc \in {"rdm", "error"}

(***************************************************************************)
(* C6.  The Spearman rank correlation of a dissimilarity array with        *)
(* itself is 1.0, for every array the notebook can hand to spearmanr.      *)
(***************************************************************************)
C6SelfCorrelationIsOne ==
    (pc = "returned" /\ arg.fn = "spearmanr" /\ arg.a = arg.b) =>
        ret = SurdOne

(***************************************************************************)
(* C7, as the code has it.  Entry 0 of rdm_size is the double              *)
(* abs(.3 - .35) = 0.04999999999999999, which is 2^-56 below the double    *)
(* 0.05 and not equal to it; every entry of rdm_size is the non-negative   *)
(* absolute difference, in double arithmetic, of the two sizes of its      *)
(* pair.                                                                   *)
(***************************************************************************)
C7FirstEntryNearFiveHundredths ==
    /\ Len(rdm_size) >= 1 =>
          /\ rdm_size[1] = AbsDiff(ParseDecimal(3, 10), ParseDecimal(35, 100))
          /\ rdm_size[1] # ParseDecimal(5, 100)
          /\ BitsLess(rdm_size[1].mag, ParseDecimal(5, 100).mag)
          /\ BitsSub(ParseDecimal(5, 100).mag, rdm_size[1].mag)
                = Unit(IntBits + 56)
    /\ \A k \in 1..Len(rdm_size) :
          LET p == CanonPairs(Len(sizes))[k]
          IN  /\ ~rdm_size[k].neg
              /\ rdm_size[k] = AbsDiff(At(sizes, p[1]), At(sizes, p[2]))

\* C7 witness: the loop over combinations(sizes, 2) has run to its end
C7Witness ==
    /\ pc = "plot"
    /\ Len(rdm_size) = 28
    /\ sizes = SizesLiteral
    /\ rdm_size[1].mag # BitsZero

\* C7 as the specification words it: entry 0 of rdm_size equals 0.05, and
\* every entry is the non-negative absolute difference of its pair
C7FirstEntryIsFiveHundredths ==
    /\ Len(rdm_size) >= 1 => rdm_size[1] = ParseDecimal(5, 100)
    /\ \A k \in 1..Len(rdm_size) :
          LET p == CanonPairs(Len(sizes))[k]
          IN  /\ ~rdm_size[k].neg
              /\ rdm_size[k] = AbsDiff(At(sizes, p[1]), At(sizes, p[2]))

(***************************************************************************)
(* C8.  With the 8 categories in alphabetical order and the canonical      *)
(* pair order, rdm_animacy is 0.5 at the pair (cat, face) and 1 elsewhere, *)
(* rdm_tools is 0.5 at the three pairs among bottle, scissors and shoe     *)
(* and 1 elsewhere: indices 8 and 4, 6, 26 are the indices of those pairs. *)
(***************************************************************************)
C8ModelPairs ==
    /\ pc \in AfterAnimacy =>
          /\ categories = Alphabetical
          /\ Len(rdm_animacy) = 28
          /\ \A k \in 0..27 :
                At(rdm_animacy, k) =
                    IF PairNames(k) = {"cat", "face"} THEN FHalf ELSE FOne
          /\ {k \in 0..27 : At(rdm_animacy, k) # FOne} = {8}
    /\ pc \in AfterTools =>
          /\ Len(rdm_tools) = 28
          /\ \A k \in 0..27 :
                At(rdm_tools, k) =
                    IF PairNames(k) \subseteq {"bottle", "scissors", "shoe"}
                    THEN FHalf ELSE FOne
          /\ {k \in 0..27 : At(rdm_tools, k) # FOne} = {4, 6, 26}

\* C8 witness: both model RDMs are built, with their 0.5 entries
C8Witness ==
    /\ pc = "sizes"
    /\ At(rdm_animacy, 8) = FHalf
    /\ At(rdm_tools, 4) = FHalf
    /\ At(rdm_tools, 26) = FHalf

C10EventsPerRun ==
    /\ pc = "fit" =>
          /\ Len(func_runs) = Len(RunsOfSession)
          /\ Len(design_matrices) = Len(RunsOfSession)
    /\ Len(design_matrices) <= Len(func_runs)
    /\ \A r \in 1..Len(func_runs) :
          func_runs[r] = TRsOfRun(RunsOfSession[r])
    /\ pc \in {"design", "fit"} =>
          \A t \in 0..(Len(session) - 1) :
              Cardinality({r \in 1..Len(func_runs) :
                              \E k \in 1..Len(func_runs[r]) :
                                  func_runs[r][k] = t}) = 1
    /\ \A r \in 1..Len(design_matrices) :
          LET trs == func_runs[r]
              ev  == design_matrices[r].events
          IN  /\ Len(ev) = Cardinality({k \in 1..Len(trs) :
                                  At(session, trs[k]).labels # "rest"})
              /\ \A k \in 0..(Len(trs) - 1) :
                    LET label == At(session, At(trs, k)).labels
                        at    == {e \in 1..Len(ev) : ev[e].onset = 5 * k}
                    IN  IF label = "rest" THEN at = {}
                        ELSE /\ Cardinality(at) = 1
                             /\ \A e \in at :
                                   /\ ev[e].trial_type = label
                                   /\ ev[e].duration = 5

\* C10 witness: two runs, the second with a 'rest' TR at position 0 and a
\* stimulus TR at position 1, which gives the event of onset 2.5
C10Witness ==
    /\ pc = "fit"
    /\ Len(design_matrices) = 2
    /\ Len(func_runs[2]) >= 2
    /\ At(session, At(func_runs[2], 0)).labels = "rest"
    /\ Len(design_matrices[2].events) >= 1
    /\ design_matrices[2].events[1].onset = 5
    /\ design_matrices[2].events[1].trial_type = "face"

=============================================================================
